---- MODULE Spec2Model ----
(***************************************************************************)
(* Model of package id3v24 (src/id3v24.go): chapter start-time parsing,    *)
(* the CHAP/CTOC frame encoders and the FFmpeg text metadata generators.   *)
(*                                                                         *)
(* A Go string is a sequence of runes (code points), a []byte a sequence   *)
(* of 0..255.  A uint32 is its two 16-bit halves [hi, lo], an int64        *)
(* (time.Duration, nanoseconds) a sign and eight big-endian bytes of       *)
(* magnitude, so that both keep their width.                               *)
(***************************************************************************)
EXTENDS Integers, Sequences, FiniteSets, TLC

VARIABLES pc, op, args, ret, tag, fs

vars == <<pc, op, args, ret, tag, fs>>

(***************************************************************************)
(* Sequences, bytes and fixed-width integers                               *)
(***************************************************************************)

\* One more than the largest value of a Go byte.
ByteMod == 256

\* count copies of x
Repeat(x, count) == [i \in 1..count |-> x]

\* the concatenation of the sequences ss[lo], ..., ss[hi]
RECURSIVE ConcatRange(_, _, _)
ConcatRange(ss, lo, hi) ==
  IF lo > hi THEN <<>>
  ELSE IF lo = hi THEN ss[lo]
  ELSE LET mid == (lo + hi) \div 2
       IN  ConcatRange(ss, lo, mid) \o ConcatRange(ss, mid + 1, hi)

Concat(ss) == ConcatRange(ss, 1, Len(ss))

\* s[from:] of Go, with from a 0-based offset
Drop(s, from) == SubSeq(s, from + 1, Len(s))

\* s[:to] of Go
Take(s, to) == SubSeq(s, 1, to)

\* big-endian bytes bs divided by the small number k: quotient bytes and remainder
RECURSIVE DivSmallRec(_, _, _, _)
DivSmallRec(bs, k, i, acc) ==
  IF i > Len(bs) THEN acc
  ELSE LET t == acc.r * ByteMod + bs[i]
       IN  DivSmallRec(bs, k, i + 1, [q |-> Append(acc.q, t \div k), r |-> t % k])

DivSmall(bs, k) == DivSmallRec(bs, k, 1, [q |-> <<>>, r |-> 0])

\* big-endian bytes bs times the small number k plus carry, in Len(bs) bytes
RECURSIVE MulSmallRec(_, _, _, _, _)
MulSmallRec(bs, k, i, carry, acc) ==
  IF i = 0 THEN acc
  ELSE LET t == bs[i] * k + carry
       IN  MulSmallRec(bs, k, i - 1, t \div ByteMod, <<t % ByteMod>> \o acc)

MulSmall(bs, k, carry) == MulSmallRec(bs, k, Len(bs), carry, <<>>)

IsZeroBytes(bs) == \A i \in 1..Len(bs) : bs[i] = 0

\* two's complement negation of big-endian bytes
RECURSIVE NegBytesRec(_, _, _, _)
NegBytesRec(bs, i, carry, acc) ==
  IF i = 0 THEN acc
  ELSE LET t == (ByteMod - 1 - bs[i]) + carry
       IN  NegBytesRec(bs, i - 1, t \div ByteMod, <<t % ByteMod>> \o acc)

NegBytes(bs) == NegBytesRec(bs, Len(bs), 1, <<>>)

\* One more than the largest value of a 16-bit half of a uint32.
HalfMod == 65536

\* uint32(n) for a number 0 <= n < 2^31
U32(n) == [hi |-> (n \div HalfMod) % HalfMod, lo |-> n % HalfMod]

\* the uint32 of four big-endian bytes
U32OfBytes(b) == [hi |-> b[1] * ByteMod + b[2], lo |-> b[3] * ByteMod + b[4]]

(***************************************************************************)
(* time.Duration: an int64 count of nanoseconds                            *)
(***************************************************************************)

\* nanoseconds per millisecond (time.Millisecond)
Millisecond == 1000000

\* nanoseconds per second (time.Second)
Second == 1000000000

\* the Duration of ms whole milliseconds (8 bytes) and ns further nanoseconds
DurationOf(neg, ms, ns) == [neg |-> neg, mag |-> MulSmall(ms, Millisecond, ns)]

\* duration.TimeDuration == 0
DurationIsZero(d) == IsZeroBytes(d.mag)

\* uint32(duration.TimeDuration / time.Millisecond): Go's division truncates
\* toward zero, the conversion keeps the low 32 bits of the two's complement
DurationMillis(d) ==
  LET q == Drop(DivSmall(d.mag, Millisecond).q, 4)
  IN  U32OfBytes(IF d.neg THEN NegBytes(q) ELSE q)

(***************************************************************************)
(* time.Parse for the layouts "15:04:05.000", "15:04:05.0" and "15:04:05"  *)
(***************************************************************************)

Colon == 58

IsDigitRune(r) == r \in 48..57

\* isDigit(s, i) with i a 0-based offset
isDigit(s, i) == i < Len(s) /\ IsDigitRune(s[i + 1])

commaOrPeriod(r) == r \in {44, 46}

\* getnum: a 1 or 2 digit number, exactly 2 digits when fixed
getnum(s, fixed) ==
  IF ~isDigit(s, 0) THEN [ok |-> FALSE, n |-> 0, rest |-> s]
  ELSE IF ~isDigit(s, 1)
       THEN IF fixed THEN [ok |-> FALSE, n |-> 0, rest |-> s]
            ELSE [ok |-> TRUE, n |-> s[1] - 48, rest |-> Drop(s, 1)]
       ELSE [ok |-> TRUE, n |-> (s[1] - 48) * 10 + (s[2] - 48), rest |-> Drop(s, 2)]

\* leadingInt on a string of at most 9 runes: the leading digits' value and the rest
RECURSIVE leadingInt(_, _)
leadingInt(s, x) ==
  IF s = <<>> \/ ~IsDigitRune(s[1]) THEN [x |-> x, rem |-> s]
  ELSE leadingInt(Tail(s), x * 10 + (s[1] - 48))

\* atoi: an optional sign, then digits only
atoi(s) ==
  LET signed == s # <<>> /\ s[1] \in {43, 45}
      neg    == signed /\ s[1] = 45
      li     == leadingInt(IF signed THEN Tail(s) ELSE s, 0)
  IN  IF li.rem # <<>> THEN [ok |-> FALSE, x |-> 0]
      ELSE [ok |-> TRUE, x |-> IF neg THEN 0 - li.x ELSE li.x]

RECURSIVE Pow10(_)
Pow10(e) == IF e = 0 THEN 1 ELSE 10 * Pow10(e - 1)

\* parseNanoseconds(value, nbytes): value[0] is the separator, value[1:nbytes]
\* the digits, of which at most 9 are read
parseNanoseconds(value, nbytes) ==
  IF ~commaOrPeriod(value[1]) THEN [ok |-> FALSE, ns |-> 0]
  ELSE LET n == IF nbytes > 10 THEN 10 ELSE nbytes
           a == atoi(SubSeq(value, 2, n))
       IN  IF ~a.ok \/ a.x < 0 THEN [ok |-> FALSE, ns |-> 0]
           ELSE [ok |-> TRUE, ns |-> a.x * Pow10(10 - n)]

\* the number of runes of the fractional second that follows the seconds field
\* when the layout has none: the separator and every digit after it
RECURSIVE fracLen(_, _)
fracLen(value, n) == IF n < Len(value) /\ isDigit(value, n) THEN fracLen(value, n + 1) ELSE n

BadTime == [ok |-> FALSE, hour |-> 0, min |-> 0, sec |-> 0, nsec |-> 0]

\* the end of the layout: no text may be left over
ParseEnd(hour, min, sec, frac, rest) ==
  IF ~frac.ok \/ rest # <<>> THEN BadTime
  ELSE [ok |-> TRUE, hour |-> hour, min |-> min, sec |-> sec, nsec |-> frac.ns]

\* stdFracSecond0: exactly the layout's number of digits after the separator
ParseFraction(fracDigits, hour, min, sec, v) ==
  IF Len(v) < 1 + fracDigits THEN BadTime
  ELSE ParseEnd(hour, min, sec, parseNanoseconds(v, 1 + fracDigits), Drop(v, 1 + fracDigits))

\* a layout that ends with the seconds: a fractional second in the input is
\* read all the same, the separator and every digit after it
ParseFreeFraction(hour, min, sec, v) ==
  IF Len(v) >= 2 /\ commaOrPeriod(v[1]) /\ isDigit(v, 1)
  THEN ParseEnd(hour, min, sec, parseNanoseconds(v, fracLen(v, 2)), Drop(v, fracLen(v, 2)))
  ELSE ParseEnd(hour, min, sec, [ok |-> TRUE, ns |-> 0], v)

\* stdZeroSecond, s the result of getnum
ParseSecond(fracDigits, hour, min, s) ==
  IF ~s.ok \/ s.n >= 60 THEN BadTime
  ELSE IF fracDigits = 0 THEN ParseFreeFraction(hour, min, s.n, s.rest)
  ELSE ParseFraction(fracDigits, hour, min, s.n, s.rest)

\* stdZeroMinute, m the result of getnum, then the ":" before the seconds
ParseMinute(fracDigits, hour, m) ==
  IF ~m.ok \/ m.n >= 60 THEN BadTime
  ELSE IF m.rest = <<>> \/ m.rest[1] # Colon THEN BadTime
  ELSE ParseSecond(fracDigits, hour, m.n, getnum(Tail(m.rest), TRUE))

\* stdHour, h the result of getnum, then the ":" before the minutes
ParseHour(fracDigits, h) ==
  IF ~h.ok \/ h.n >= 24 THEN BadTime
  ELSE IF h.rest = <<>> \/ h.rest[1] # Colon THEN BadTime
  ELSE ParseMinute(fracDigits, h.n, getnum(Tail(h.rest), TRUE))

\* time.Parse(layout, value) where layout is "15:04:05" followed by a period
\* and fracDigits zeros (no period when fracDigits = 0)
TimeParse(fracDigits, value) == ParseHour(fracDigits, getnum(value, FALSE))

(***************************************************************************)
(* StringTimeToTime and StringTimeToMillis                                 *)
(***************************************************************************)

\* the layouts' fractional digits, in the order they are tried
Layouts == <<3, 1, 0>>

\* the first of the three parses that succeeded
FirstParsed(d1, d2, d3) ==
  IF d1.ok THEN [err |-> "nil", d |-> d1]
  ELSE IF d2.ok THEN [err |-> "nil", d |-> d2]
  ELSE IF d3.ok THEN [err |-> "nil", d |-> d3]
  ELSE [err |-> "ErrBadChapterStartTime", d |-> BadTime]

StringTimeToTime(t) ==
  FirstParsed(TimeParse(Layouts[1], t), TimeParse(Layouts[2], t), TimeParse(Layouts[3], t))

\* the milliseconds of a parsed time d; the hour, minute and second terms are
\* whole milliseconds, so the division by time.Millisecond is carried out on
\* each term
TimeMillis(d) ==
  d.hour * (3600 * (Second \div Millisecond)) + d.min * (60 * (Second \div Millisecond))
  + d.sec * (Second \div Millisecond) + d.nsec \div Millisecond

\* r the result of StringTimeToTime
MillisResult(r) ==
  IF r.err # "nil" THEN [err |-> r.err, millis |-> U32(0)]
  ELSE [err |-> "nil", millis |-> U32(TimeMillis(r.d))]

StringTimeToMillis(t) == MillisResult(StringTimeToTime(t))

(***************************************************************************)
(* Formatting                                                              *)
(***************************************************************************)

\* the decimal digits of a number n > 0, most significant first
RECURSIVE Digits(_)
Digits(n) == IF n = 0 THEN <<>> ELSE Append(Digits(n \div 10), 48 + (n % 10))

\* strconv.Itoa for n >= 0
Itoa(n) == IF n = 0 THEN <<48>> ELSE Digits(n)

\* the decimal digits of a uint32 v > 0, by long division on its halves
RECURSIVE DigitsU32(_)
DigitsU32(v) ==
  IF v.hi = 0 /\ v.lo = 0 THEN <<>>
  ELSE LET t == (v.hi % 10) * HalfMod + v.lo
       IN  Append(DigitsU32([hi |-> v.hi \div 10, lo |-> t \div 10]), 48 + (t % 10))

\* fmt.Sprintf("%d", v) for a uint32 v
FormatUint32(v) == IF v.hi = 0 /\ v.lo = 0 THEN <<48>> ELSE DigitsU32(v)

\* binary.BigEndian.PutUint32
PutUint32(v) == << v.hi \div ByteMod, v.hi % ByteMod, v.lo \div ByteMod, v.lo % ByteMod >>

\* the digits ds zero-padded on the left to width w (time.Format's appendInt)
RECURSIVE PadZero(_, _)
PadZero(ds, w) == IF Len(ds) >= w THEN ds ELSE PadZero(<<48>> \o ds, w)

\* the zero time.Time: January 1, year 1
ZeroDate == [year |-> 1, month |-> 1, day |-> 1]

\* Date.IsZero()
DateIsZero(d) == d = ZeroDate

\* Date.Format("2006")
FormatYear(d) == PadZero(Itoa(d.year), 4)

\* Date.Format("2006-01-02")
FormatDate(d) ==
  FormatYear(d) \o <<45>> \o PadZero(Itoa(d.month), 2) \o <<45>> \o PadZero(Itoa(d.day), 2)

(***************************************************************************)
(* TextFrame, the CHAP and CTOC bodies, AddCHAPAndCTOC                     *)
(***************************************************************************)

\* each rune as its low byte and a zero byte
Utf16LowBytes(title) == Concat([i \in 1..Len(title) |-> <<title[i] % ByteMod, 0>>])

TextFrame(title) == <<1, 255, 254>> \o Utf16LowBytes(title)

\* "TIT2"
TIT2 == <<84, 73, 84, 50>>

\* the body of the CHAP frame of the chapter at 0-based index i
CHAPBody(i, start, end, title) ==
  LET chapterID  == Itoa(i + 1)
      titleFrame == TextFrame(title)
  IN  chapterID \o <<0>>
      \o PutUint32(start) \o PutUint32(end)
      \o <<255, 255, 255, 255>> \o <<255, 255, 255, 255>>
      \o TIT2 \o PutUint32(U32(Len(titleFrame))) \o <<0, 0>>
      \o titleFrame

\* every id of chapterIDs followed by a zero byte
CTOCEntries(chapterIDs) == Concat([i \in 1..Len(chapterIDs) |-> chapterIDs[i] \o <<0>>])

\* byte(len(chapterIDs))
ChildCountByte(chapterIDs) == Len(chapterIDs) % ByteMod

\* "toc\x00", the flags, the child count, the entries
CTOCBody(chapterIDs) ==
  <<116, 111, 99, 0>> \o <<1, 0>> \o <<ChildCountByte(chapterIDs)>> \o CTOCEntries(chapterIDs)

\* tag.AddFrame(id, id3v2.UnknownFrame{Body: body})
AddFrame(t, id, body) == Append(t, [id |-> id, body |-> body])

\* the parse loop: every chapter's StringTimeToMillis, in list order
ParseStarts(chapters) == [i \in 1..Len(chapters) |-> StringTimeToMillis(chapters[i].Start)]

\* the index of the first chapter whose start fails to parse, 0 when none does
FirstBad(parsed) ==
  IF \A i \in 1..Len(parsed) : parsed[i].err = "nil" THEN 0
  ELSE CHOOSE i \in 1..Len(parsed) :
         /\ parsed[i].err # "nil"
         /\ \A j \in 1..(i - 1) : parsed[j].err = "nil"

\* ChapterEnd with the index of the last chapter taken one too low
ChapterEndOffByOne(starts, millis, i) ==
  IF i < Len(starts) - 1 THEN starts[i + 1] ELSE millis

\* the end of the chapter at 1-based index i
ChapterEnd(starts, millis, i) == IF i < Len(starts) THEN starts[i + 1] ELSE millis

\* tag.AddFrame for each frame of frames, in order
AddFrames(t, frames) == t \o frames

\* the CHAP encoding loop: one CHAP frame a chapter, added in list order
AddCHAPs(t, chapters, starts, millis) ==
  AddFrames(t, [i \in 1..Len(chapters) |->
                  [id |-> "CHAP",
                   body |-> CHAPBody(i - 1, starts[i], ChapterEnd(starts, millis, i),
                                     chapters[i].Title)]])

\* starts[i] = m of every chapter
StartsOf(parsed) == [i \in 1..Len(parsed) |-> parsed[i].millis]

\* the chapterID of every chapter, in list order
ChapterIDs(chapters) == [i \in 1..Len(chapters) |-> Itoa(i)]

\* AddParsed with parsing and encoding in one loop: the chapters before the
\* first bad start have their CHAP frames added when the error is returned
AddParsedAsItGoes(t, chapters, millis, parsed, bad) ==
  IF bad # 0
  THEN [err |-> parsed[bad].err,
        tag |-> AddCHAPs(t, Take(chapters, bad - 1), StartsOf(parsed), millis)]
  ELSE [err |-> "nil",
        tag |-> AddFrame(AddCHAPs(t, chapters, StartsOf(parsed), millis), "CTOC",
                         CTOCBody(ChapterIDs(chapters)))]

\* the two loops and the CTOC frame, parsed the results of the parse loop and
\* bad the first of them that is an error
AddParsed(t, chapters, millis, parsed, bad) ==
  IF bad # 0 THEN [err |-> parsed[bad].err, tag |-> t]
  ELSE [err |-> "nil",
        tag |-> AddFrame(AddCHAPs(t, chapters, StartsOf(parsed), millis), "CTOC",
                         CTOCBody(ChapterIDs(chapters)))]

AddParsedStarts(t, chapters, millis, parsed) ==
  AddParsed(t, chapters, millis, parsed, FirstBad(parsed))

\* AddCHAPAndCTOC with the duration check before the empty-list check
AddCHAPAndCTOCDurationFirst(duration, t, chapters) ==
  IF DurationIsZero(duration) THEN [err |-> "ErrZeroDuration", tag |-> t]
  ELSE IF Len(chapters) = 0 THEN [err |-> "nil", tag |-> t]
  ELSE AddParsedStarts(t, chapters, DurationMillis(duration), ParseStarts(chapters))

AddCHAPAndCTOC(duration, t, chapters) ==
  IF Len(chapters) = 0 THEN [err |-> "nil", tag |-> t]
  ELSE IF DurationIsZero(duration) THEN [err |-> "ErrZeroDuration", tag |-> t]
  ELSE AddParsedStarts(t, chapters, DurationMillis(duration), ParseStarts(chapters))

(***************************************************************************)
(* GetFFmpegChaptersTXT, WriteFFmpegChaptersTXT, WriteFFmpegMetadataFile   *)
(***************************************************************************)

\* ";FFMETADATA1\n"
FFMETADATA1 == <<59, 70, 70, 77, 69, 84, 65, 68, 65, 84, 65, 49, 10>>

\* a nil []byte, and a non-nil one
NilBytes == [nil |-> TRUE, b |-> <<>>]

Bytes(b) == [nil |-> FALSE, b |-> b]

\* fmt.Sprintf("\n[CHAPTER]\nTIMEBASE=1/1000\nSTART=%d\nEND=%d\ntitle=%s\n", ...)
ChapterBlock(start, end, title) ==
  <<10, 91, 67, 72, 65, 80, 84, 69, 82, 93, 10,
    84, 73, 77, 69, 66, 65, 83, 69, 61, 49, 47, 49, 48, 48, 48, 10,
    83, 84, 65, 82, 84, 61>> \o FormatUint32(start)
  \o <<10, 69, 78, 68, 61>> \o FormatUint32(end)
  \o <<10, 116, 105, 116, 108, 101, 61>> \o title \o <<10>>

\* the block loop: one block a chapter, appended in list order
ChapterBlocks(chapters, starts, millis) ==
  Concat([i \in 1..Len(chapters) |->
            ChapterBlock(starts[i], ChapterEnd(starts, millis, i), chapters[i].Title)])

\* the two loops, parsed the results of the parse loop and bad the first of
\* them that is an error
TXTParsed(chapters, millis, parsed, bad) ==
  IF bad # 0 THEN [err |-> parsed[bad].err, out |-> NilBytes]
  ELSE [err |-> "nil",
        out |-> Bytes(FFMETADATA1 \o ChapterBlocks(chapters, StartsOf(parsed), millis))]

TXTParsedStarts(chapters, millis, parsed) ==
  TXTParsed(chapters, millis, parsed, FirstBad(parsed))

GetFFmpegChaptersTXT(duration, chapters) ==
  IF Len(chapters) = 0 THEN [err |-> "nil", out |-> NilBytes]
  ELSE IF DurationIsZero(duration) THEN [err |-> "ErrZeroDuration", out |-> NilBytes]
  ELSE TXTParsedStarts(chapters, DurationMillis(duration), ParseStarts(chapters))

\* the 1-based index of the first occurrence of sub in s, 0 when there is none
IndexOf(s, sub) ==
  LET hits == {i \in 1..(Len(s) - Len(sub) + 1) : SubSeq(s, i, i + Len(sub) - 1) = sub}
  IN  IF hits = {} THEN 0 ELSE CHOOSE i \in hits : \A j \in hits : i <= j

\* bytes.Replace(s, old, nil, 1)
RemoveFirst(s, old) ==
  LET i == IndexOf(s, old)
  IN  IF i = 0 THEN s ELSE SubSeq(s, 1, i - 1) \o Drop(s, i - 1 + Len(old))

\* strings.Map dropping '\n' and '\r'
RECURSIVE StripLinefeeds(_)
StripLinefeeds(value) ==
  IF value = <<>> THEN <<>>
  ELSE IF value[1] \in {10, 13} THEN StripLinefeeds(Tail(value))
  ELSE <<value[1]>> \o StripLinefeeds(Tail(value))

\* unicode.IsSpace
IsSpace(r) ==
  r \in {9, 10, 11, 12, 13, 32, 133, 160, 5760, 8232, 8233, 8239, 8287, 12288}
        \cup (8192..8202)

\* strings.TrimSpace
RECURSIVE TrimLeft(_)
TrimLeft(v) == IF v # <<>> /\ IsSpace(v[1]) THEN TrimLeft(Tail(v)) ELSE v

RECURSIVE TrimRight(_)
TrimRight(v) == IF v # <<>> /\ IsSpace(v[Len(v)]) THEN TrimRight(Take(v, Len(v) - 1)) ELSE v

TrimSpace(v) == TrimRight(TrimLeft(v))

appendKVPair(output, key, value) ==
  output \o key \o <<61>> \o TrimSpace(StripLinefeeds(value)) \o <<10>>

\* the keys of kvpairs
KeyTitle == <<116, 105, 116, 108, 101>>
KeyAlbum == <<97, 108, 98, 117, 109>>
KeyArtist == <<97, 114, 116, 105, 115, 116>>
KeyGenre == <<103, 101, 110, 114, 101>>
KeyTrack == <<116, 114, 97, 99, 107>>
KeyComment == <<99, 111, 109, 109, 101, 110, 116>>
KeyLanguage == <<108, 97, 110, 103, 117, 97, 103, 101>>
KeyDescription == <<100, 101, 115, 99, 114, 105, 112, 116, 105, 111, 110>>
KeyCopyright == <<99, 111, 112, 121, 114, 105, 103, 104, 116>>
KeyDate == <<100, 97, 116, 101>>

\* fmt.Sprintf("Copyright %s %s", input.Date.Format("2006"), input.Artist)
CopyrightValue(input) ==
  <<67, 111, 112, 121, 114, 105, 103, 104, 116, 32>> \o FormatYear(input.Date)
  \o <<32>> \o input.Artist

\* kvpairs: one key and value each, the date only when it is not zero
KVPairs(input) ==
  << [k |-> KeyTitle, v |-> input.Title],
     [k |-> KeyAlbum, v |-> input.Album],
     [k |-> KeyArtist, v |-> input.Artist],
     [k |-> KeyGenre, v |-> input.Genre],
     [k |-> KeyTrack, v |-> input.Track],
     [k |-> KeyComment, v |-> input.Comment],
     [k |-> KeyLanguage, v |-> input.Language],
     [k |-> KeyDescription, v |-> input.Description],
     [k |-> KeyCopyright, v |-> CopyrightValue(input)] >>
  \o (IF ~DateIsZero(input.Date) THEN << [k |-> KeyDate, v |-> FormatDate(input.Date)] >>
      ELSE <<>>)

\* whether a pair is rendered: len([]rune(v)) > 0
Rendered(v) == Len(v) > 0

\* the loop over kvpairs from the pair at 1-based index i on
RECURSIVE AppendPairs(_, _, _)
AppendPairs(output, kvpairs, i) ==
  IF i > Len(kvpairs) THEN output
  ELSE AppendPairs(IF Rendered(kvpairs[i].v)
                   THEN appendKVPair(output, kvpairs[i].k, kvpairs[i].v)
                   ELSE output,
                   kvpairs, i + 1)

\* the bytes WriteFFmpegMetadataFile hands to f.Write
MetadataOutput(input, chaptersTXT) ==
  LET rest == IF chaptersTXT.nil THEN <<>> ELSE RemoveFirst(chaptersTXT.b, FFMETADATA1)
  IN  AppendPairs(FFMETADATA1, KVPairs(input), 1) \o rest

\* the empty path "" returned with an error
NoPath == [n |-> 0, suffix |-> ""]

\* os.CreateTemp("", pattern): a name no file of fs has
TempName(files, suffix) ==
  [n |-> Cardinality({f \in files : f.name.suffix = suffix}) + 1, suffix |-> suffix]

\* create the temporary file, write data, and remove the file again when the
\* write fails; io is what the operating system does: "ok", "createFails",
\* "writeFails"
WriteTemp(files, suffix, data, io) ==
  IF io = "createFails" THEN [path |-> NoPath, err |-> "ErrCreateTemp", fs |-> files]
  ELSE IF io = "writeFails" THEN [path |-> NoPath, err |-> "ErrWrite", fs |-> files]
  ELSE LET name == TempName(files, suffix)
       IN  [path |-> name, err |-> "nil", fs |-> files \cup {[name |-> name, data |-> data]}]

\* r the result of GetFFmpegChaptersTXT
WriteChaptersTXT(files, r, io) ==
  IF r.err # "nil" THEN [path |-> NoPath, err |-> r.err, fs |-> files]
  ELSE WriteTemp(files, "-chapters.txt", r.out.b, io)

WriteFFmpegChaptersTXT(files, duration, chapters, io) ==
  WriteChaptersTXT(files, GetFFmpegChaptersTXT(duration, chapters), io)

\* r the result of GetFFmpegChaptersTXT
WriteMetadata(files, r, input, io) ==
  IF r.err # "nil" THEN [path |-> NoPath, err |-> r.err, fs |-> files]
  ELSE WriteTemp(files, "-ffmetadata.txt", MetadataOutput(input, r.out), io)

WriteFFmpegMetadataFile(files, duration, input, io) ==
  WriteMetadata(files, GetFFmpegChaptersTXT(duration, input.Chapters), input, io)

(***************************************************************************)
(* The inputs the operations are called with                               *)
(***************************************************************************)

\* the longest chapter list that is enumerated over ChapterPool
MaxChapters == 2

\* all sequences over S of length 0..n
RECURSIVE SeqsUpTo(_, _)
SeqsUpTo(S, n) ==
  IF n = 0 THEN {<<>>}
  ELSE LET shorter == SeqsUpTo(S, n - 1)
       IN  shorter \cup {Append(q, x) : q \in {r \in shorter : Len(r) = n - 1}, x \in S}

\* "00:00:00.000", "00:00:10", "00:00:20.5": the three layouts
Start000 == <<48, 48, 58, 48, 48, 58, 48, 48, 46, 48, 48, 48>>
Start10 == <<48, 48, 58, 48, 48, 58, 49, 48>>
Start205 == <<48, 48, 58, 48, 48, 58, 50, 48, 46, 53>>
\* "10:99"
StartBad == <<49, 48, 58, 57, 57>>

Chapter1 == [Title |-> <<67, 104, 97, 112, 116, 101, 114, 32, 49>>, Start |-> Start000]
Chapter2 == [Title |-> <<67, 104, 97, 112, 116, 101, 114, 32, 50>>, Start |-> Start10]
Chapter3 == [Title |-> <<67, 104, 97, 112, 116, 101, 114, 32, 51>>, Start |-> Start205]
\* a title with a line break in it: "A\nB"
ChapterNL == [Title |-> <<65, 10, 66>>, Start |-> Start10]
\* a start that does not parse, and a title rune above 0xFF
ChapterBad == [Title |-> <<9786>>, Start |-> StartBad]

ChapterPool == {Chapter1, Chapter2, Chapter3, ChapterNL, ChapterBad}

\* the chapters of TestAddCHAPAndCTOC and TestGetFFmpegChaptersTXT
TestChapters == <<Chapter1, Chapter2, Chapter3>>

\* lists at and just past the largest count a byte holds
LongLens == {ByteMod - 1, ByteMod}

ChapterLists == SeqsUpTo(ChapterPool, MaxChapters) \cup {TestChapters}

LongLists == {Repeat(Chapter2, n) : n \in LongLens}

ZeroMs == <<0, 0, 0, 0, 0, 0, 0, 0>>

\* 0; half a millisecond; 1 ms; 30 s; -5 s; 2^32 - 1 ms; 2^32 + 5 ms
Duration0 == DurationOf(FALSE, ZeroMs, 0)
DurationHalfMs == DurationOf(FALSE, ZeroMs, 500000)
Duration1ms == DurationOf(FALSE, <<0, 0, 0, 0, 0, 0, 0, 1>>, 0)
Duration30s == DurationOf(FALSE, <<0, 0, 0, 0, 0, 0, 117, 48>>, 0)
DurationNeg5s == DurationOf(TRUE, <<0, 0, 0, 0, 0, 0, 19, 136>>, 0)
DurationMaxU32 == DurationOf(FALSE, <<0, 0, 0, 0, 255, 255, 255, 255>>, 0)
DurationWrap == DurationOf(FALSE, <<0, 0, 0, 1, 0, 0, 0, 5>>, 0)

Durations ==
  {Duration0, DurationHalfMs, Duration1ms, Duration30s, DurationNeg5s,
   DurationMaxU32, DurationWrap}

\* the duration and chapters the chapter operations are called with: every
\* list of ChapterLists with every duration, the long lists with 30 s
ChapterCalls ==
  {[duration |-> d, chapters |-> c] : d \in Durations, c \in ChapterLists}
  \cup {[duration |-> Duration30s, chapters |-> c] : c \in LongLists}

\* the tag before the call: empty, with a title set, with chapters added before
TagInputs ==
  { <<>>,
    <<[id |-> "TIT2", body |-> TextFrame(<<84>>)]>>,
    AddCHAPAndCTOC(Duration30s, <<>>, <<Chapter1>>).tag }

\* hour, minute, second and fraction texts the start strings are built from
HourTexts == {<<48, 48>>, <<49>>, <<50, 51>>, <<50, 52>>, <<120>>}
MinuteTexts == {<<48, 48>>, <<53, 57>>, <<54, 48>>, <<53>>}
SecondTexts == {<<48, 48>>, <<49, 48>>, <<53, 57>>, <<54, 48>>, <<55>>}
FractionTexts ==
  { <<>>, <<46>>, <<46, 53>>, <<46, 50, 53>>, <<46, 53, 48, 48>>, <<46, 49, 50, 51, 52>>,
    <<44, 53>>, <<46, 53, 120>>, <<46, 49, 50, 51, 52, 53, 54, 55, 56, 57, 49>> }

TimeStrings ==
  { h \o <<Colon>> \o m \o <<Colon>> \o sec \o f :
      h \in HourTexts, m \in MinuteTexts, sec \in SecondTexts, f \in FractionTexts }
  \cup {<<>>, StartBad, <<48, 48, 58, 48, 48, 58, 48, 48, 90>>}

\* field values: text, blanks only, blanks and a line break around text
FieldValues == {<<85>>, <<32, 32>>, <<32, 97, 10, 98, 32>>}

StringFields ==
  {"Title", "Album", "Artist", "Genre", "Track", "Comment", "Language",
   "Description", "Copyright"}

EmptyTrackInfo ==
  [Title |-> <<>>, Album |-> <<>>, Artist |-> <<>>, Genre |-> <<>>, Year |-> <<>>,
   Date |-> ZeroDate, Track |-> <<>>, Comment |-> <<>>, Description |-> <<>>,
   Language |-> <<>>, Copyright |-> <<>>, CoverJPEG |-> <<>>, Chapters |-> <<>>]

Dates == {ZeroDate, [year |-> 2024, month |-> 9, day |-> 17]}

\* the duration and chapters WriteFFmpegMetadataFile is called with
MetadataCases ==
  { [duration |-> Duration0, chapters |-> <<>>],
    [duration |-> Duration30s, chapters |-> <<>>],
    [duration |-> Duration30s, chapters |-> TestChapters],
    [duration |-> Duration0, chapters |-> <<Chapter1>>],
    [duration |-> Duration30s, chapters |-> <<Chapter1, ChapterBad>>] }

\* TrackInfo values with at most two of the string fields set, without chapters
TrackInfos ==
  { [[[EmptyTrackInfo EXCEPT ![f] = v] EXCEPT ![g] = w] EXCEPT !.Date = d] :
      f \in StringFields, g \in StringFields, v \in FieldValues \cup {<<>>},
      w \in FieldValues \cup {<<>>}, d \in Dates }

IOOutcomes == {"ok", "createFails", "writeFails"}

(***************************************************************************)
(* The state machine: a caller calls one operation and takes its result    *)
(***************************************************************************)

NoArgs ==
  [t |-> <<>>, duration |-> Duration0, tag |-> <<>>, chapters |-> <<>>,
   input |-> EmptyTrackInfo, io |-> "ok"]

NoRet == [err |-> "nil", millis |-> U32(0), out |-> NilBytes, path |-> NoPath]

Init ==
  /\ pc = "idle"
  /\ op = "none"
  /\ args = NoArgs
  /\ ret = NoRet
  /\ tag = <<>>
  /\ fs = {}

CallStringTimeToMillis ==
  /\ pc = "idle"
  /\ \E t \in TimeStrings :
       LET r == StringTimeToMillis(t)
       IN  /\ pc' = "returned"
           /\ op' = "StringTimeToMillis"
           /\ args' = [NoArgs EXCEPT !.t = t]
           /\ ret' = [NoRet EXCEPT !.err = r.err, !.millis = r.millis]
           /\ UNCHANGED <<tag, fs>>

CallAddCHAPAndCTOC ==
  /\ pc = "idle"
  /\ \E c \in ChapterCalls, t \in TagInputs :
       LET duration == c.duration
           chapters == c.chapters
           r        == AddCHAPAndCTOC(duration, t, chapters)
       IN  /\ pc' = "returned"
           /\ op' = "AddCHAPAndCTOC"
           /\ args' = [NoArgs EXCEPT !.duration = duration, !.tag = t, !.chapters = chapters]
           /\ ret' = [NoRet EXCEPT !.err = r.err]
           /\ tag' = r.tag
           /\ UNCHANGED fs

CallGetFFmpegChaptersTXT ==
  /\ pc = "idle"
  /\ \E c \in ChapterCalls :
       LET duration == c.duration
           chapters == c.chapters
           r        == GetFFmpegChaptersTXT(duration, chapters)
       IN  /\ pc' = "returned"
           /\ op' = "GetFFmpegChaptersTXT"
           /\ args' = [NoArgs EXCEPT !.duration = duration, !.chapters = chapters]
           /\ ret' = [NoRet EXCEPT !.err = r.err, !.out = r.out]
           /\ UNCHANGED <<tag, fs>>

CallWriteFFmpegChaptersTXT ==
  /\ pc = "idle"
  /\ \E c \in ChapterCalls, io \in IOOutcomes :
       LET duration == c.duration
           chapters == c.chapters
           r        == WriteFFmpegChaptersTXT(fs, duration, chapters, io)
       IN  /\ pc' = "returned"
           /\ op' = "WriteFFmpegChaptersTXT"
           /\ args' = [NoArgs EXCEPT !.duration = duration, !.chapters = chapters, !.io = io]
           /\ ret' = [NoRet EXCEPT !.err = r.err, !.path = r.path]
           /\ fs' = r.fs
           /\ UNCHANGED tag

CallWriteFFmpegMetadataFile ==
  /\ pc = "idle"
  /\ \E info \in TrackInfos, c \in MetadataCases, io \in IOOutcomes :
       LET input == [info EXCEPT !.Chapters = c.chapters]
           r     == WriteFFmpegMetadataFile(fs, c.duration, input, io)
       IN  /\ pc' = "returned"
           /\ op' = "WriteFFmpegMetadataFile"
           /\ args' = [NoArgs EXCEPT !.duration = c.duration, !.chapters = input.Chapters,
                                     !.input = input, !.io = io]
           /\ ret' = [NoRet EXCEPT !.err = r.err, !.path = r.path]
           /\ fs' = r.fs
           /\ UNCHANGED tag

\* the caller takes the result; a test removes the file it was given
\* (defer os.Remove) and drops the tag
Return ==
  /\ pc = "returned"
  /\ pc' = "idle"
  /\ op' = "none"
  /\ args' = NoArgs
  /\ ret' = NoRet
  /\ tag' = <<>>
  /\ fs' = {}

Next ==
  \/ CallStringTimeToMillis
  \/ CallAddCHAPAndCTOC
  \/ CallGetFFmpegChaptersTXT
  \/ CallWriteFFmpegChaptersTXT
  \/ CallWriteFFmpegMetadataFile
  \/ Return

Spec == Init /\ [][Next]_vars

(***************************************************************************)
(* What the properties read off a call: the frames added, the file         *)
(* written, the intervals decoded from the output                          *)
(***************************************************************************)

IsChapterCall == pc = "returned" /\ op \in {"AddCHAPAndCTOC", "GetFFmpegChaptersTXT"}

\* the frames the call added to the tag
AddedFrames == Drop(tag, Len(args.tag))

\* the tag still begins with the frames it had before the call
KeepsOldFrames == Len(tag) >= Len(args.tag) /\ Take(tag, Len(args.tag)) = args.tag

\* some chapter's start string fails to parse
SomeStartBad(chapters) ==
  \E i \in 1..Len(chapters) : StringTimeToMillis(chapters[i].Start).err # "nil"

\* the total duration in whole milliseconds, as 8 big-endian bytes of magnitude
WholeMillis(d) == DivSmall(d.mag, Millisecond).q

\* the total duration is at least 1 ms
PositiveMillis(d) == ~d.neg /\ ~IsZeroBytes(WholeMillis(d))

\* the total duration is less than 2^32 ms
FitsUint32(d) == IsZeroBytes(Take(WholeMillis(d), 4))

(***************************************************************************)
(* C4                                                                      *)
(***************************************************************************)

\* C4: with an empty chapter list AddCHAPAndCTOC returns no error and leaves
\* the tag as it was, whatever the duration; and a call that adds a CTOC
\* frame adds at least one CHAP frame.
C4_EmptyListAddsNothing ==
  (pc = "returned" /\ op = "AddCHAPAndCTOC") =>
    /\ KeepsOldFrames
    /\ args.chapters = <<>> => (ret.err = "nil" /\ tag = args.tag)
    /\ (\E i \in 1..Len(AddedFrames) : AddedFrames[i].id = "CTOC")
         => (\E i \in 1..Len(AddedFrames) : AddedFrames[i].id = "CHAP")

\* an empty list with a zero duration, on a tag that already holds a frame
C4_Witness ==
  /\ pc = "returned" /\ op = "AddCHAPAndCTOC"
  /\ args.chapters = <<>>
  /\ DurationIsZero(args.duration)
  /\ args.tag # <<>>
  /\ ret.err = "nil"

(***************************************************************************)
(* C2                                                                      *)
(***************************************************************************)

\* C2: when some chapter's start string fails to parse, AddCHAPAndCTOC
\* returns an error and the tag is exactly as before the call, and
\* GetFFmpegChaptersTXT returns an error and no bytes; the error is
\* ErrBadChapterStartTime, unless the duration is zero, which is checked
\* first and returns ErrZeroDuration.
C2_AllOrNothing ==
  (IsChapterCall /\ SomeStartBad(args.chapters)) =>
    /\ ret.err = (IF DurationIsZero(args.duration) THEN "ErrZeroDuration"
                  ELSE "ErrBadChapterStartTime")
    /\ op = "AddCHAPAndCTOC" => tag = args.tag
    /\ op = "GetFFmpegChaptersTXT" => ret.out = NilBytes

\* the last chapter's start is the bad one, after one that parses, on a tag
\* that already holds a frame
C2_Witness ==
  /\ pc = "returned" /\ op = "AddCHAPAndCTOC"
  /\ args.chapters = <<Chapter1, ChapterBad>>
  /\ args.duration = Duration30s
  /\ args.tag # <<>>
  /\ ret.err = "ErrBadChapterStartTime"

(***************************************************************************)
(* Decoding what a call produced                                            *)
(***************************************************************************)

\* how many numbers of the set P are at most p
Rank(P, p) == Cardinality({q \in P : q <= p})

\* the index of the first zero byte of b
FirstZero(b) == CHOOSE z \in 1..Len(b) : b[z] = 0 /\ \A j \in 1..(z - 1) : b[j] # 0

\* a CHAP body decoded: the element ID up to its terminator, then the start
\* and the end as big-endian uint32
DecodeCHAP(b) ==
  [id    |-> Take(b, FirstZero(b) - 1),
   start |-> U32OfBytes(SubSeq(b, FirstZero(b) + 1, FirstZero(b) + 4)),
   end   |-> U32OfBytes(SubSeq(b, FirstZero(b) + 5, FirstZero(b) + 8))]

\* the decimal number that begins at s[p], as a uint32
RECURSIVE ReadU32(_, _, _)
ReadU32(s, p, acc) ==
  IF p > Len(s) \/ ~IsDigitRune(s[p]) THEN acc
  ELSE LET lo == acc.lo * 10 + (s[p] - 48)
       IN  ReadU32(s, p + 1, [hi |-> (acc.hi * 10 + lo \div HalfMod) % HalfMod,
                              lo |-> lo % HalfMod])

\* the positions where field begins a line of text
FieldPositions(text, field) ==
  {p \in 1..(Len(text) - Len(field)) :
     text[p] = 10 /\ SubSeq(text, p + 1, p + Len(field)) = field}

StartField == <<83, 84, 65, 82, 84, 61>>

EndField == <<69, 78, 68, 61>>

\* the numbers of the lines of text that begin with field are vals, in order
FieldValuesAre(text, field, vals) ==
  /\ Cardinality(FieldPositions(text, field)) = Len(vals)
  /\ \A p \in FieldPositions(text, field) :
       ReadU32(text, p + Len(field) + 1, U32(0))
         = vals[Rank(FieldPositions(text, field), p)]

\* the intervals of the CHAP frames the call added are starts and ends
FrameIntervalsAre(starts, ends) ==
  /\ Len(AddedFrames) = Len(starts) + 1
  /\ \A i \in 1..Len(starts) :
       /\ AddedFrames[i].id = "CHAP"
       /\ DecodeCHAP(AddedFrames[i].body).start = starts[i]
       /\ DecodeCHAP(AddedFrames[i].body).end = ends[i]

\* the call succeeded and its output gives chapter i the interval starts[i], ends[i]
GivesIntervals(starts, ends) ==
  /\ ret.err = "nil"
  /\ op = "AddCHAPAndCTOC" => (KeepsOldFrames /\ FrameIntervalsAre(starts, ends))
  /\ op = "GetFFmpegChaptersTXT" =>
       /\ FieldValuesAre(ret.out.b, StartField, starts)
       /\ FieldValuesAre(ret.out.b, EndField, ends)

\* the parsed start of every chapter, in list order
ParsedStartsOf(chapters) ==
  [i \in 1..Len(chapters) |-> StringTimeToMillis(chapters[i].Start).millis]

\* the end the claim gives chapter i: the next chapter's parsed start, or
\* last, the total duration, for the last chapter
ClaimedEnds(chapters, last) ==
  [i \in 1..Len(chapters) |->
     IF i < Len(chapters) THEN StringTimeToMillis(chapters[i + 1].Start).millis
     ELSE last]

\* the total duration in milliseconds as a uint32, when it is less than 2^32
MillisU32(d) == U32OfBytes(Drop(WholeMillis(d), 4))

(***************************************************************************)
(* C1                                                                      *)
(***************************************************************************)

\* a call on a non-empty list whose starts all parse, with a total duration
\* of at least 1 ms
C1_Case ==
  /\ IsChapterCall
  /\ args.chapters # <<>>
  /\ ~SomeStartBad(args.chapters)
  /\ PositiveMillis(args.duration)

\* C1 (as amended): for a non-empty list whose starts all parse and a total
\* duration D with 1 <= D < 2^32 ms, AddCHAPAndCTOC and GetFFmpegChaptersTXT
\* succeed and give chapter i its parsed start as start and, as end, the
\* parsed start of chapter i+1, or D for the last chapter, whatever the order
\* of the starts.
C1_IntervalsUpToUint32 ==
  (C1_Case /\ FitsUint32(args.duration)) =>
    GivesIntervals(ParsedStartsOf(args.chapters),
                   ClaimedEnds(args.chapters, MillisU32(args.duration)))

\* the three chapters of the tests with 30 s, written as text
C1_Witness ==
  /\ pc = "returned" /\ op = "GetFFmpegChaptersTXT"
  /\ args.chapters = TestChapters
  /\ args.duration = Duration30s
  /\ ret.err = "nil"
  /\ FieldValuesAre(ret.out.b, EndField, <<U32(10000), U32(20500), U32(30000)>>)

\* C1 (as stated): the same for every total duration D > 0 ms; the end of
\* the last chapter is D itself.
C1_IntervalsAnyDuration ==
  C1_Case =>
    /\ FitsUint32(args.duration)
    /\ GivesIntervals(ParsedStartsOf(args.chapters),
                      ClaimedEnds(args.chapters, MillisU32(args.duration)))

(***************************************************************************)
(* C3                                                                      *)
(***************************************************************************)

\* C3 (as stated): for a non-empty list AddCHAPAndCTOC and
\* GetFFmpegChaptersTXT succeed only when the total duration is at least one
\* whole millisecond; with a total duration of zero or less they fail with
\* ErrZeroDuration, the tag unchanged and no bytes returned.  Stated for the
\* lists whose starts all parse, so that no other error is due.
C3_ZeroDurationRejected ==
  (IsChapterCall /\ args.chapters # <<>> /\ ~SomeStartBad(args.chapters)) =>
    /\ ret.err = "nil" => PositiveMillis(args.duration)
    /\ ~PositiveMillis(args.duration) =>
         /\ ret.err = "ErrZeroDuration"
         /\ op = "AddCHAPAndCTOC" => tag = args.tag
         /\ op = "GetFFmpegChaptersTXT" => ret.out = NilBytes

(***************************************************************************)
(* C6                                                                      *)
(***************************************************************************)

\* the child count byte of a CTOC body
CTOCCount(b) == b[7]

\* the entries of a CTOC body: what follows the element ID "toc", its
\* terminator, the flags and the child count
CTOCEntryBytes(b) == Drop(b, 7)

\* the terminators of the entries
CTOCTerminators(b) == {z \in 1..Len(CTOCEntryBytes(b)) : CTOCEntryBytes(b)[z] = 0}

\* the entry that the terminator at z ends
CTOCEntryAt(b, z) ==
  LET before == {q \in CTOCTerminators(b) : q < z}
      from   == IF before = {} THEN 1
                ELSE (CHOOSE q \in before : \A r \in before : r <= q) + 1
  IN  SubSeq(CTOCEntryBytes(b), from, z - 1)

\* decoding the CTOC body b yields exactly the child element IDs ids, in order
CTOCDecodesTo(b, ids) ==
  /\ Take(b, 4) = <<116, 111, 99, 0>>
  /\ CTOCCount(b) = Len(ids)
  /\ Cardinality(CTOCTerminators(b)) = Len(ids)
  /\ CTOCEntryBytes(b)[Len(CTOCEntryBytes(b))] = 0
  /\ \A z \in CTOCTerminators(b) : CTOCEntryAt(b, z) = ids[Rank(CTOCTerminators(b), z)]

\* C6 (as stated): a successful AddCHAPAndCTOC on N >= 1 chapters appends N
\* CHAP frames followed by one CTOC frame, and decoding the CTOC body yields
\* exactly the N child element IDs "1" .. "N", in list order, the element
\* IDs of the CHAP frames.
C6_CTOCListsEveryChapter ==
  (pc = "returned" /\ op = "AddCHAPAndCTOC" /\ args.chapters # <<>> /\ ret.err = "nil") =>
    /\ KeepsOldFrames
    /\ Len(AddedFrames) = Len(args.chapters) + 1
    /\ \A i \in 1..Len(args.chapters) :
         /\ AddedFrames[i].id = "CHAP"
         /\ DecodeCHAP(AddedFrames[i].body).id = Itoa(i)
    /\ AddedFrames[Len(AddedFrames)].id = "CTOC"
    /\ CTOCDecodesTo(AddedFrames[Len(AddedFrames)].body,
                     [i \in 1..Len(args.chapters) |-> Itoa(i)])

(***************************************************************************)
(* C5                                                                      *)
(***************************************************************************)

\* the number the two digits at s[p] and s[p + 1] spell
TwoDigits(s, p) == (s[p] - 48) * 10 + (s[p + 1] - 48)

\* t is HH:MM:SS, HH:MM:SS.f or HH:MM:SS.mmm, of a time of the day
InFormatHHMMSS(t) ==
  /\ Len(t) \in {8, 10, 12}
  /\ \A p \in {1, 2, 4, 5, 7, 8} : IsDigitRune(t[p])
  /\ t[3] = Colon /\ t[6] = Colon
  /\ TwoDigits(t, 1) < 24 /\ TwoDigits(t, 4) < 60 /\ TwoDigits(t, 7) < 60
  /\ Len(t) > 8 => (t[9] = 46 /\ \A p \in 10..Len(t) : IsDigitRune(t[p]))

\* t with a one-digit hour written in two digits
PadHour(t) == IF Len(t) >= 2 /\ t[2] = Colon THEN <<48>> \o t ELSE t

\* t is in one of the three formats, the hour in one digit or two
InThreeFormats(t) == InFormatHHMMSS(PadHour(t))

\* the fraction of a string in one of the three formats, in milliseconds
FractionMillis(t) ==
  IF Len(t) = 8 THEN 0
  ELSE IF Len(t) = 10 THEN (t[10] - 48) * 100
  ELSE TwoDigits(t, 10) * 10 + (t[12] - 48)

\* hours*3600000 + minutes*60000 + seconds*1000 + milliseconds
ClaimedMillis(t) ==
  TwoDigits(t, 1) * 3600000 + TwoDigits(t, 4) * 60000 + TwoDigits(t, 7) * 1000
  + FractionMillis(t)

\* C5 (as stated): StringTimeToMillis accepts exactly the strings in one of
\* the formats HH:MM:SS.mmm, HH:MM:SS.f and HH:MM:SS and returns
\* hours*3600000 + minutes*60000 + seconds*1000 + milliseconds for them; for
\* every other string it returns ErrBadChapterStartTime.
C5_ExactlyThreeFormats ==
  (pc = "returned" /\ op = "StringTimeToMillis") =>
    IF InThreeFormats(args.t)
    THEN ret.err = "nil" /\ ret.millis = U32(ClaimedMillis(PadHour(args.t)))
    ELSE ret.err = "ErrBadChapterStartTime"

(***************************************************************************)
(* C7                                                                      *)
(***************************************************************************)

\* the bytes of the file the call returned the path of
WrittenData == (CHOOSE f \in fs : f.name = ret.path).data

\* the call wrote a file and returned its path
WroteFile(name) ==
  /\ pc = "returned" /\ op = name /\ ret.err = "nil"
  /\ \E f \in fs : f.name = ret.path

\* the first line of text is ";FFMETADATA1"
FirstLineIsMarker(text) ==
  Len(text) >= Len(FFMETADATA1) /\ Take(text, Len(FFMETADATA1)) = FFMETADATA1

\* C7 (as stated): every text output produced without error, the bytes of
\* GetFFmpegChaptersTXT and the files of WriteFFmpegChaptersTXT and
\* WriteFFmpegMetadataFile, has ";FFMETADATA1" as its first line, also when
\* the chapter list is empty.
C7_MarkerFirst ==
  /\ (pc = "returned" /\ op = "GetFFmpegChaptersTXT" /\ ret.err = "nil")
       => FirstLineIsMarker(ret.out.b)
  /\ (pc = "returned" /\ op = "WriteFFmpegChaptersTXT" /\ ret.err = "nil")
       => (WroteFile(op) /\ FirstLineIsMarker(WrittenData))
  /\ (pc = "returned" /\ op = "WriteFFmpegMetadataFile" /\ ret.err = "nil")
       => (WroteFile(op) /\ FirstLineIsMarker(WrittenData))

(***************************************************************************)
(* C8, C9                                                                  *)
(***************************************************************************)

\* a value with its line breaks stripped and the white space around it trimmed
CleanValue(v) == TrimSpace(StripLinefeeds(v))

\* the line of a field: none when the clean value is empty
ClaimedLine(key, v) ==
  IF CleanValue(v) = <<>> THEN <<>> ELSE key \o <<61>> \o CleanValue(v) \o <<10>>

\* the lines of the fields before the copyright, in the fixed order
ClaimedLeadingLines(input) ==
  ClaimedLine(KeyTitle, input.Title) \o ClaimedLine(KeyAlbum, input.Album)
  \o ClaimedLine(KeyArtist, input.Artist) \o ClaimedLine(KeyGenre, input.Genre)
  \o ClaimedLine(KeyTrack, input.Track) \o ClaimedLine(KeyComment, input.Comment)
  \o ClaimedLine(KeyLanguage, input.Language)
  \o ClaimedLine(KeyDescription, input.Description)

\* the line of the date: none for the zero date
ClaimedDateLine(input) ==
  IF DateIsZero(input.Date) THEN <<>>
  ELSE KeyDate \o <<61>> \o FormatDate(input.Date) \o <<10>>

\* where the copyright line of text begins, 0 when there is none
CopyrightAt(text) ==
  IF IndexOf(text, <<10>> \o KeyCopyright \o <<61>>) = 0 THEN 0
  ELSE IndexOf(text, <<10>> \o KeyCopyright \o <<61>>) + 1

\* text from its copyright line on
FromCopyright(text) == Drop(text, CopyrightAt(text) - 1)

\* the value of the copyright line of text
CopyrightLineValue(text) ==
  SubSeq(FromCopyright(text), Len(KeyCopyright) + 2, IndexOf(FromCopyright(text), <<10>>) - 1)

\* text after its copyright line
AfterCopyright(text) == Drop(FromCopyright(text), IndexOf(FromCopyright(text), <<10>>))

\* text begins with line and goes on with nothing or with the blank line
\* that opens a chapter block
LineThenBlocks(text, line) ==
  /\ Len(text) >= Len(line) /\ Take(text, Len(line)) = line
  /\ Len(text) > Len(line) => text[Len(line) + 1] = 10

\* C8 (as stated): in the file of WriteFFmpegMetadataFile a scalar field has
\* a key=value line if and only if its value is not empty after the line
\* breaks are stripped and the white space trimmed; a rendered field takes
\* exactly one line; the lines are in the fixed order title, album, artist,
\* genre, track, comment, language, description, copyright, date, and come
\* before any chapter block.
C8_LinesOnlyForNonEmptyValues ==
  WroteFile("WriteFFmpegMetadataFile") =>
    /\ CopyrightAt(WrittenData) # 0
    /\ Take(WrittenData, CopyrightAt(WrittenData) - 1)
         = FFMETADATA1 \o ClaimedLeadingLines(args.input)
    /\ LineThenBlocks(AfterCopyright(WrittenData), ClaimedDateLine(args.input))

\* "Copyright <year> <artist>"
ClaimedSynthesized(input) ==
  <<67, 111, 112, 121, 114, 105, 103, 104, 116, 32>> \o FormatYear(input.Date)
  \o <<32>> \o input.Artist

\* C9 (as stated): the copyright line of the file of WriteFFmpegMetadataFile
\* is synthesized as "Copyright <year> <artist>" only when
\* TrackInfo.Copyright is empty; when it is not empty the line carries the
\* supplied value.
C9_SuppliedCopyrightKept ==
  WroteFile("WriteFFmpegMetadataFile") =>
    /\ CopyrightAt(WrittenData) # 0
    /\ CopyrightLineValue(WrittenData)
         = CleanValue(IF args.input.Copyright = <<>> THEN ClaimedSynthesized(args.input)
                      ELSE args.input.Copyright)

(***************************************************************************)
(* C10                                                                     *)
(***************************************************************************)

\* how many lines of text begin with field
LinesWith(text, field) == Cardinality(FieldPositions(text, field))

\* "[CHAPTER]" and its line break, "TIMEBASE=1/1000" and its line break
ChapterLine == <<91, 67, 72, 65, 80, 84, 69, 82, 93, 10>>

TimebaseLine == <<84, 73, 77, 69, 66, 65, 83, 69, 61, 49, 47, 49, 48, 48, 48, 10>>

\* C10 (as stated): for N >= 1 chapters with any titles a successful
\* GetFFmpegChaptersTXT returns the marker line followed by exactly N blocks,
\* each a blank line and the five lines [CHAPTER], TIMEBASE=1/1000, START=,
\* END=, title=; no chapter adds a line of its own.
C10_SixLinesAChapter ==
  (pc = "returned" /\ op = "GetFFmpegChaptersTXT" /\ args.chapters # <<>>
     /\ ret.err = "nil") =>
    /\ FirstLineIsMarker(ret.out.b)
    /\ Cardinality({p \in 1..Len(ret.out.b) : ret.out.b[p] = 10})
         = 1 + 6 * Len(args.chapters)
    /\ ret.out.b[Len(ret.out.b)] = 10
    /\ LinesWith(ret.out.b, <<10>> \o ChapterLine \o TimebaseLine \o StartField)
         = Len(args.chapters)
    /\ LinesWith(ret.out.b, EndField) = Len(args.chapters)
    /\ LinesWith(ret.out.b, KeyTitle \o <<61>>) = Len(args.chapters)

====
